---- MODULE Spec2Model ----
(***************************************************************************)
(* Model of src/lib/parser.js: the markdown-to-landing-page-block parser.   *)
(*                                                                         *)
(* A string is a sequence of one-character strings, so that the regular    *)
(* expressions of the parser are modelled by what they match, character by *)
(* character.  An optional value (null or a value) is the empty sequence   *)
(* or a one-element sequence.                                              *)
(*                                                                         *)
(* The markdown source is a sequence of block-level elements: a comment    *)
(* marker, or the source of one token of the tokenizer (marked.lexer).     *)
(* A position in the source is an index of that sequence and every marker  *)
(* has length 1.                                                           *)
(***************************************************************************)
EXTENDS Integers, Sequences, FiniteSets, TLC

\* ------------------------------------------------------------------------
\* Strings and the regular expressions of parser.js
\* ------------------------------------------------------------------------

Min(S) == CHOOSE x \in S : \A y \in S : x <= y

Max(S) == CHOOSE x \in S : \A y \in S : x >= y

\* s occurs in str at index p
OccursAt(str, s, p) ==
    /\ p >= 1
    /\ p + Len(s) - 1 <= Len(str)
    /\ \A k \in 1..Len(s) : str[p + k - 1] = s[k]

\* String.prototype.trim
RECURSIVE TrimLeft(_)
TrimLeft(str) ==
    IF str # <<>> /\ Head(str) = " " THEN TrimLeft(Tail(str)) ELSE str

RECURSIVE TrimRight(_)
TrimRight(str) ==
    IF str # <<>> /\ str[Len(str)] = " "
    THEN TrimRight(SubSeq(str, 1, Len(str) - 1))
    ELSE str

Trim(str) == TrimRight(TrimLeft(str))

\* The match of  prefix (.*?) \] \( (.*?) \)  that starts at p, where prefix
\* is "![" or "[": the first group is the shortest text up to a "](" that
\* some ")" follows, the second the shortest text up to that ")".
BracketCloses(str, p, prefix) ==
    {k \in (p + Len(prefix))..(Len(str) - 1) :
        /\ OccursAt(str, <<"]", "(">>, k)
        /\ \E m \in (k + 2)..Len(str) : str[m] = ")"}

BracketMatchAt(str, p, prefix) ==
    LET k == Min(BracketCloses(str, p, prefix))
        m == Min({n \in (k + 2)..Len(str) : str[n] = ")"})
    IN  [from |-> p, to |-> m,
         g1 |-> SubSeq(str, p + Len(prefix), k - 1),
         g2 |-> SubSeq(str, k + 2, m - 1)]

\* str.match(re) for the two bracket expressions: the leftmost match, as an
\* optional value
BracketMatch(str, prefix) ==
    LET starts == {p \in 1..Len(str) :
                      /\ OccursAt(str, prefix, p)
                      /\ BracketCloses(str, p, prefix) # {}}
    IN  IF starts = {} THEN <<>>
        ELSE <<BracketMatchAt(str, Min(starts), prefix)>>

\*  /!\[(.*?)\]\((.*?)\)/
ImageRegex(str) == BracketMatch(str, <<"!", "[">>)

\*  /\[(.*?)\]\((.*?)\)/
LinkRegex(str) == BracketMatch(str, <<"[">>)

\*  /\*\*(.*?)\*\*/
BoldRegex(str) ==
    LET stars == <<"*", "*">>
        closes(p) == {k \in (p + 2)..Len(str) : OccursAt(str, stars, k)}
        starts == {p \in 1..Len(str) : OccursAt(str, stars, p) /\ closes(p) # {}}
    IN  IF starts = {} THEN <<>>
        ELSE LET p == Min(starts)
                 k == Min(closes(p))
             IN  <<[from |-> p, to |-> k + 1,
                    g1 |-> SubSeq(str, p + 2, k - 1), g2 |-> <<>>]>>

\* str.replace(re, ""): the first match removed
RemoveMatch(str, match) ==
    IF match = <<>> THEN str
    ELSE SubSeq(str, 1, match[1].from - 1) \o SubSeq(str, match[1].to + 1, Len(str))

RECURSIVE Concat(_)
Concat(seqs) == IF seqs = <<>> THEN <<>> ELSE Head(seqs) \o Concat(Tail(seqs))

\* ------------------------------------------------------------------------
\* Tokens: what marked.lexer returns
\* ------------------------------------------------------------------------

\* An inline piece of markdown: an image ![a](b), a link [a](b), a bold
\* segment **a** or plain text a.
Piece(kind, a, b) == [kind |-> kind, a |-> a, b |-> b]

\* The raw text of a piece
PieceText(p) ==
    CASE p.kind = "img"  -> <<"!", "[">> \o p.a \o <<"]", "(">> \o p.b \o <<")">>
      [] p.kind = "link" -> <<"[">> \o p.a \o <<"]", "(">> \o p.b \o <<")">>
      [] p.kind = "bold" -> <<"*", "*">> \o p.a \o <<"*", "*">>
      [] OTHER           -> p.a

\* The inline subtoken of a piece: {type, text, href}
PieceToken(p) ==
    CASE p.kind = "img"  -> [type |-> "image", text |-> p.a, href |-> p.b]
      [] p.kind = "link" -> [type |-> "link", text |-> p.a, href |-> p.b]
      [] p.kind = "bold" -> [type |-> "strong", text |-> p.a, href |-> <<>>]
      [] OTHER           -> [type |-> "text", text |-> p.a, href |-> <<>>]

\* The raw text of a line of pieces, one space between two pieces
RECURSIVE RawText(_)
RawText(pieces) ==
    IF pieces = <<>> THEN <<>>
    ELSE IF Len(pieces) = 1 THEN PieceText(pieces[1])
    ELSE PieceText(pieces[1]) \o <<" ">> \o RawText(Tail(pieces))

\* The inline subtokens of a line of pieces; the space between two pieces is
\* a text subtoken
RECURSIVE InlineTokens(_)
InlineTokens(pieces) ==
    IF pieces = <<>> THEN <<>>
    ELSE IF Len(pieces) = 1 THEN <<PieceToken(pieces[1])>>
    ELSE <<PieceToken(pieces[1]), [type |-> "text", text |-> <<" ">>, href |-> <<>>]>>
         \o InlineTokens(Tail(pieces))

\* A token of the tokenizer: type is heading, paragraph, list, hr, image or
\* space; tokens is the empty sequence when the tokenizer gave no inline
\* subtokens; an item of a list is {text, tokens}.
Token(type, depth, text, tokens, items, href) ==
    [type |-> type, depth |-> depth, text |-> text, tokens |-> tokens,
     items |-> items, href |-> href]

\* A block-level element of the source: the markdown of one token (kind
\* heading, paragraph, list, hr, image, blank) or a comment marker
\* <!--name--> or <!--/name--> (kind comment).  inline tells whether the
\* tokenizer parses the inline markdown of the element into subtokens.
Source(kind, depth, text, pieces, inline, items, href, name, closing) ==
    [kind |-> kind, depth |-> depth, text |-> text, pieces |-> pieces,
     inline |-> inline, items |-> items, href |-> href, name |-> name,
     closing |-> closing]

SrcHeading(depth, text) ==
    Source("heading", depth, text, <<>>, FALSE, <<>>, <<>>, "", FALSE)

SrcParagraph(pieces, inline) ==
    Source("paragraph", 0, <<>>, pieces, inline, <<>>, <<>>, "", FALSE)

SrcItem(pieces, inline) == [pieces |-> pieces, inline |-> inline]

SrcList(items) == Source("list", 0, <<>>, <<>>, FALSE, items, <<>>, "", FALSE)

SrcHr == Source("hr", 0, <<>>, <<>>, FALSE, <<>>, <<>>, "", FALSE)

SrcImage(href) == Source("image", 0, <<>>, <<>>, FALSE, <<>>, href, "", FALSE)

SrcBlank == Source("blank", 0, <<>>, <<>>, FALSE, <<>>, <<>>, "", FALSE)

SrcComment(name, closing) ==
    Source("comment", 0, <<>>, <<>>, FALSE, <<>>, <<>>, name, closing)

\* The token of one element of the source
LexItem(it) ==
    [text |-> RawText(it.pieces),
     tokens |-> IF it.inline THEN InlineTokens(it.pieces) ELSE <<>>]

LexElement(e) ==
    CASE e.kind = "heading" ->
            Token("heading", e.depth, e.text, <<>>, <<>>, <<>>)
      [] e.kind = "paragraph" ->
            Token("paragraph", 0, RawText(e.pieces),
                  IF e.inline THEN InlineTokens(e.pieces) ELSE <<>>, <<>>, <<>>)
      [] e.kind = "list" ->
            Token("list", 0, <<>>, <<>>,
                  [k \in 1..Len(e.items) |-> LexItem(e.items[k])], <<>>)
      [] e.kind = "hr" -> Token("hr", 0, <<>>, <<>>, <<>>, <<>>)
      [] e.kind = "image" -> Token("image", 0, <<>>, <<>>, <<>>, e.href)
      [] OTHER -> Token("space", 0, <<>>, <<>>, <<>>, <<>>)

\* marked.lexer(text), for a text without comment markers
Lexer(source) == [k \in 1..Len(source) |-> LexElement(source[k])]

\* String.prototype.trim on a piece of the source: blank lines at both ends go
RECURSIVE TrimSourceLeft(_)
TrimSourceLeft(source) ==
    IF source # <<>> /\ Head(source).kind = "blank"
    THEN TrimSourceLeft(Tail(source))
    ELSE source

RECURSIVE TrimSourceRight(_)
TrimSourceRight(source) ==
    IF source # <<>> /\ source[Len(source)].kind = "blank"
    THEN TrimSourceRight(SubSeq(source, 1, Len(source) - 1))
    ELSE source

TrimSource(source) == TrimSourceRight(TrimSourceLeft(source))

\* token.tokens?.find(t => t.type === type), as an optional value
FindToken(tokens, type) ==
    LET at == {k \in 1..Len(tokens) : tokens[k].type = type}
    IN  IF at = {} THEN <<>> ELSE <<tokens[Min(at)]>>

\* tokens.filter(t => t.type === "text").map(t => t.text).join("")
RECURSIVE JoinText(_)
JoinText(tokens) ==
    IF tokens = <<>> THEN <<>>
    ELSE (IF Head(tokens).type = "text" THEN Head(tokens).text ELSE <<>>)
         \o JoinText(Tail(tokens))

\* !!value for a string or null held as an optional value
Truthy(opt) == opt # <<>> /\ opt[1] # <<>>

\* ------------------------------------------------------------------------
\* The type extractors
\* ------------------------------------------------------------------------

Link(match) == [label |-> match[1].g1, href |-> match[1].g2]

\* Mutant of HeroSectionItemLinks: no fallback to the link expression
HeroSectionItemLinksTokenOnly(item) ==
    LET linkToken == FindToken(item.tokens, "link")
    IN  IF linkToken # <<>>
        THEN <<[label |-> linkToken[1].text, href |-> linkToken[1].href]>>
        ELSE <<>>

\* parseHeroSection: the link of one list item, as a sequence of 0 or 1 links
HeroSectionItemLinks(item) ==
    LET linkToken == FindToken(item.tokens, "link")
        linkMatch == LinkRegex(item.text)
    IN  IF linkToken # <<>>
        THEN <<[label |-> linkToken[1].text, href |-> linkToken[1].href]>>
        ELSE IF linkMatch # <<>> THEN <<Link(linkMatch)>> ELSE <<>>

\* parseHeroSection: a paragraph token
HeroSectionParagraph(hero, token) ==
    LET imageToken == FindToken(token.tokens, "image")
        textContent == Trim(JoinText(token.tokens))
        imgMatch == ImageRegex(token.text)
        textWithoutImage == Trim(RemoveMatch(token.text, imgMatch))
    IN  IF imageToken # <<>>
        THEN [hero EXCEPT !.image = <<imageToken[1].href>>,
                          !.content = IF textContent # <<>>
                                      THEN @ \o textContent \o <<" ">> ELSE @]
        ELSE IF token.text # <<>>
        THEN IF imgMatch # <<>>
             THEN [hero EXCEPT !.image = <<imgMatch[1].g2>>,
                               !.content = IF textWithoutImage # <<>>
                                           THEN @ \o textWithoutImage \o <<" ">>
                                           ELSE @]
             ELSE IF Trim(token.text) # <<>>
             THEN [hero EXCEPT !.content = @ \o token.text \o <<" ">>]
             ELSE hero
        ELSE hero

\* parseHeroSection: one iteration of the loop over the tokens
HeroSectionToken(hero, token) ==
    IF token.type = "heading" /\ token.depth = 1
    THEN [hero EXCEPT !.title = token.text]
    ELSE IF token.type = "paragraph" THEN HeroSectionParagraph(hero, token)
    ELSE IF token.type = "list"
    THEN [hero EXCEPT !.links =
            @ \o Concat([k \in 1..Len(token.items) |->
                            HeroSectionItemLinks(token.items[k])])]
    ELSE IF token.type = "image" THEN [hero EXCEPT !.image = <<token.href>>]
    ELSE hero

RECURSIVE HeroSectionLoop(_, _)
HeroSectionLoop(tokens, hero) ==
    IF tokens = <<>> THEN hero
    ELSE HeroSectionLoop(Tail(tokens), HeroSectionToken(hero, Head(tokens)))

EmptyHero == [type |-> "hero", title |-> <<>>, content |-> <<>>, links |-> <<>>,
              image |-> <<>>]

\* parseHeroSection(tokens): the hero block or null, as an optional value
ParseHeroSection(tokens) ==
    LET hero == HeroSectionLoop(tokens, EmptyHero)
    IN  IF hero.title # <<>> \/ hero.content # <<>> \/ Truthy(hero.image)
        THEN <<hero>> ELSE <<>>

\* parseLogosSection: the logos of one list item, 0 or 1
LogosSectionItem(item) ==
    LET match == ImageRegex(item.text)
        imageToken == FindToken(item.tokens, "image")
    IN  IF match # <<>> THEN <<[alt |-> match[1].g1, src |-> match[1].g2]>>
        ELSE IF imageToken # <<>>
        THEN <<[alt |-> imageToken[1].text, src |-> imageToken[1].href]>>
        ELSE <<>>

\* parseLogosSection: the logos of one token
LogosSectionToken(token) ==
    IF token.type = "list"
    THEN Concat([k \in 1..Len(token.items) |-> LogosSectionItem(token.items[k])])
    ELSE IF token.type = "paragraph"
    THEN LET imgMatch == ImageRegex(token.text)
         IN  IF imgMatch # <<>>
             THEN <<[alt |-> imgMatch[1].g1, src |-> imgMatch[1].g2]>> ELSE <<>>
    ELSE <<>>

\* parseLogosSection(tokens)
ParseLogosSection(tokens) ==
    LET logos == Concat([k \in 1..Len(tokens) |-> LogosSectionToken(tokens[k])])
    IN  IF Len(logos) > 0 THEN <<[type |-> "logos", items |-> logos]>> ELSE <<>>

\* item.text.replace(image, "").replace(bold, "").replace(link, "").trim()
CardText(text) ==
    LET noImage == RemoveMatch(text, ImageRegex(text))
        noBold == RemoveMatch(noImage, BoldRegex(noImage))
        noLink == RemoveMatch(noBold, LinkRegex(noBold))
    IN  Trim(noLink)

\* parseCardsSection: the card of one list item
CardsSectionItem(item) ==
    LET imgMatch == ImageRegex(item.text)
        titleMatch == BoldRegex(item.text)
        linkMatch == LinkRegex(item.text)
    IN  [image |-> IF imgMatch # <<>> THEN <<imgMatch[1].g2>> ELSE <<>>,
         title |-> IF titleMatch # <<>> THEN titleMatch[1].g1
                   ELSE <<"F", "e", "a", "t", "u", "r", "e">>,
         text |-> CardText(item.text),
         link |-> IF linkMatch # <<>> THEN <<Link(linkMatch)>> ELSE <<>>]

\* parseCardsSection: the title after the loop, the last depth-2 heading's
CardsSectionTitle(tokens) ==
    LET at == {k \in 1..Len(tokens) :
                  tokens[k].type = "heading" /\ tokens[k].depth = 2}
    IN  IF at = {} THEN <<>> ELSE tokens[Max(at)].text

\* parseCardsSection(tokens)
ParseCardsSection(tokens) ==
    LET cardsOf(token) ==
            IF token.type = "list"
            THEN [k \in 1..Len(token.items) |-> CardsSectionItem(token.items[k])]
            ELSE <<>>
        cards == Concat([k \in 1..Len(tokens) |-> cardsOf(tokens[k])])
    IN  IF Len(cards) > 0
        THEN <<[type |-> "cards", title |-> CardsSectionTitle(tokens), items |-> cards]>>
        ELSE <<>>

\* parseCTASection: a paragraph token
CTASectionParagraph(cta, token) ==
    LET linkToken == FindToken(token.tokens, "link")
        textContent == Trim(JoinText(token.tokens))
        linkMatch == LinkRegex(token.text)
    IN  IF linkToken # <<>>
        THEN [cta EXCEPT !.link = <<[label |-> linkToken[1].text,
                                     href |-> linkToken[1].href]>>,
                         !.content = IF textContent # <<>>
                                     THEN @ \o textContent \o <<" ">> ELSE @]
        ELSE IF linkMatch # <<>>
        THEN [cta EXCEPT !.link = <<Link(linkMatch)>>,
                         !.content = @ \o Trim(RemoveMatch(token.text, linkMatch))
                                       \o <<" ">>]
        ELSE [cta EXCEPT !.content = @ \o token.text \o <<" ">>]

\* parseCTASection: one iteration of the loop over the tokens
CTASectionToken(cta, token) ==
    IF token.type = "heading" /\ token.depth = 3
    THEN [cta EXCEPT !.title = token.text]
    ELSE IF token.type = "paragraph" THEN CTASectionParagraph(cta, token)
    ELSE cta

RECURSIVE CTASectionLoop(_, _)
CTASectionLoop(tokens, cta) ==
    IF tokens = <<>> THEN cta
    ELSE CTASectionLoop(Tail(tokens), CTASectionToken(cta, Head(tokens)))

EmptyCTA == [type |-> "cta", title |-> <<>>, content |-> <<>>, link |-> <<>>]

\* parseCTASection(tokens)
ParseCTASection(tokens) ==
    LET cta == CTASectionLoop(tokens, EmptyCTA)
    IN  IF cta.title # <<>> \/ cta.content # <<>> THEN <<cta>> ELSE <<>>

\* parseSectionByType(type, content): the block or null
ParseSectionByType(type, content) ==
    LET tokens == Lexer(content)
    IN  CASE type = "hero" -> ParseHeroSection(tokens)
          [] type = "logos" -> ParseLogosSection(tokens)
          [] type = "cards" -> ParseCardsSection(tokens)
          [] type = "cta" -> ParseCTASection(tokens)
          [] OTHER -> <<[type |-> "text", content |-> content]>>

\* ------------------------------------------------------------------------
\* parsePatternBased: the heuristic segmenter
\* ------------------------------------------------------------------------

\* Mutant of AllImages: some item is an image, not every item
AllImagesSome(token) ==
    \E k \in 1..Len(token.items) :
        \/ ImageRegex(token.items[k].text) # <<>>
        \/ FindToken(token.items[k].tokens, "image") # <<>>

\* items.every(item => item.text.match(image) ||
\*                     (item.tokens && item.tokens.some(t => t.type === "image")))
AllImages(token) ==
    \A k \in 1..Len(token.items) :
        \/ ImageRegex(token.items[k].text) # <<>>
        \/ FindToken(token.items[k].tokens, "image") # <<>>

\* the hero run: a paragraph token
HeroRunParagraph(hero, next) ==
    LET hasText == next.text # <<>> /\ Trim(next.text) # <<>>
        imageToken == FindToken(next.tokens, "image")
        hasImageToken == imageToken # <<>>
        textContent == Trim(JoinText(next.tokens))
        imgMatch == ImageRegex(next.text)
        textWithoutImage == Trim(RemoveMatch(next.text, imgMatch))
    IN  IF ~hasText /\ ~hasImageToken THEN hero
        ELSE IF imageToken # <<>>
        THEN [hero EXCEPT !.image = <<imageToken[1].href>>,
                          !.content = IF textContent # <<>>
                                      THEN @ \o textContent \o <<" ">> ELSE @]
        ELSE IF imgMatch # <<>>
        THEN [hero EXCEPT !.image = <<imgMatch[1].g2>>,
                          !.content = IF textWithoutImage # <<>>
                                      THEN @ \o textWithoutImage \o <<" ">>
                                      ELSE @]
        ELSE IF next.text # <<>>
        THEN [hero EXCEPT !.content = @ \o next.text \o <<" ">>]
        ELSE hero

\* the hero run: the link of one item of a links list, 0 or 1
HeroRunItemLinks(item) ==
    LET linkToken == FindToken(item.tokens, "link")
        linkMatch == LinkRegex(item.text)
    IN  IF linkToken # <<>>
        THEN <<[label |-> linkToken[1].text, href |-> linkToken[1].href]>>
        ELSE IF linkMatch # <<>> THEN <<Link(linkMatch)>> ELSE <<>>

\* Mutant of HeroRun: the horizontal rule that ends the run is not consumed
RECURSIVE HeroRunRuleKept(_, _, _)
HeroRunRuleKept(tokens, i, hero) ==
    IF ~(i <= Len(tokens) /\ tokens[i].type # "heading")
    THEN [i |-> i, hero |-> hero]
    ELSE LET next == tokens[i]
         IN  IF next.type = "hr" THEN [i |-> i, hero |-> hero]
             ELSE IF next.type = "image"
             THEN HeroRunRuleKept(tokens, i + 1, [hero EXCEPT !.image = <<next.href>>])
             ELSE IF next.type = "paragraph"
             THEN HeroRunRuleKept(tokens, i + 1, HeroRunParagraph(hero, next))
             ELSE IF next.type = "list"
             THEN IF AllImages(next) THEN [i |-> i, hero |-> hero]
                  ELSE HeroRunRuleKept(tokens, i + 1,
                          [hero EXCEPT !.links =
                              @ \o Concat([k \in 1..Len(next.items) |->
                                              HeroRunItemLinks(next.items[k])])])
             ELSE HeroRunRuleKept(tokens, i + 1, hero)

\* the hero run: the inner while loop from cursor i on; the cursor and the
\* hero block when the loop is left
RECURSIVE HeroRun(_, _, _)
HeroRun(tokens, i, hero) ==
    IF ~(i <= Len(tokens) /\ tokens[i].type # "heading")
    THEN [i |-> i, hero |-> hero]
    ELSE LET next == tokens[i]
         IN  IF next.type = "hr" THEN [i |-> i + 1, hero |-> hero]
             ELSE IF next.type = "image"
             THEN HeroRun(tokens, i + 1, [hero EXCEPT !.image = <<next.href>>])
             ELSE IF next.type = "paragraph"
             THEN HeroRun(tokens, i + 1, HeroRunParagraph(hero, next))
             ELSE IF next.type = "list"
             THEN IF AllImages(next) THEN [i |-> i, hero |-> hero]
                  ELSE HeroRun(tokens, i + 1,
                          [hero EXCEPT !.links =
                              @ \o Concat([k \in 1..Len(next.items) |->
                                              HeroRunItemLinks(next.items[k])])])
             ELSE HeroRun(tokens, i + 1, hero)

\* the standalone logos list: the logo of one item, 0 or 1
LogosListItem(item) ==
    LET match == ImageRegex(item.text)
        imageToken == FindToken(item.tokens, "image")
    IN  IF match # <<>> THEN <<[alt |-> match[1].g1, src |-> match[1].g2]>>
        ELSE IF imageToken # <<>>
        THEN <<[alt |-> imageToken[1].text, src |-> imageToken[1].href]>>
        ELSE <<>>

\* the card of one item of the list after a depth-2 heading
PatternCard(item) ==
    LET imgMatch == ImageRegex(item.text)
        titleMatch == BoldRegex(item.text)
        linkMatch == LinkRegex(item.text)
    IN  [image |-> IF imgMatch # <<>> THEN <<imgMatch[1].g2>> ELSE <<>>,
         title |-> IF titleMatch # <<>> THEN titleMatch[1].g1
                   ELSE <<"F", "e", "a", "t", "u", "r", "e">>,
         text |-> CardText(item.text),
         link |-> IF linkMatch # <<>> THEN <<Link(linkMatch)>> ELSE <<>>]

\* the cta run: a paragraph token
CTARunParagraph(cta, next) ==
    LET linkToken == FindToken(next.tokens, "link")
        textContent == Trim(JoinText(next.tokens))
        linkMatch == LinkRegex(next.text)
    IN  IF linkToken # <<>>
        THEN [cta EXCEPT !.link = <<[label |-> linkToken[1].text,
                                     href |-> linkToken[1].href]>>,
                         !.content = IF textContent # <<>>
                                     THEN @ \o textContent \o <<" ">> ELSE @]
        ELSE IF linkMatch # <<>>
        THEN [cta EXCEPT !.link = <<Link(linkMatch)>>,
                         !.content = @ \o Trim(RemoveMatch(next.text, linkMatch))
                                       \o <<" ">>]
        ELSE [cta EXCEPT !.content = @ \o next.text \o <<" ">>]

\* the cta run: the inner while loop from cursor i on
RECURSIVE CTARun(_, _, _)
CTARun(tokens, i, cta) ==
    IF ~(i <= Len(tokens) /\ tokens[i].type # "heading")
    THEN [i |-> i, cta |-> cta]
    ELSE CTARun(tokens, i + 1,
                IF tokens[i].type = "paragraph"
                THEN CTARunParagraph(cta, tokens[i]) ELSE cta)

\* the branch of a depth-1 heading at i: the hero run and its block
HeroBranch(tokens, i, components) ==
    LET run == HeroRun(tokens, i + 1, [EmptyHero EXCEPT !.title = tokens[i].text])
    IN  [i |-> run.i, components |-> Append(components, run.hero)]

\* the branch of a list at i whose items are all images
LogosBranch(tokens, i, components) ==
    LET logos == Concat([k \in 1..Len(tokens[i].items) |->
                            LogosListItem(tokens[i].items[k])])
    IN  [i |-> i + 1,
         components |-> IF Len(logos) > 0
                        THEN Append(components, [type |-> "logos", items |-> logos])
                        ELSE components]

\* the branch of a depth-2 heading at i - 1 with a list at i, the cursor
\* already moved to the list
CardsBranch(tokens, i, sectionTitle, components) ==
    [i |-> i + 1,
     components |->
         Append(components,
                [type |-> "cards", title |-> sectionTitle,
                 items |-> [k \in 1..Len(tokens[i].items) |->
                               PatternCard(tokens[i].items[k])]])]

\* the branch of a depth-3 heading: token is the heading, the cursor is at i
CTABranch(tokens, i, token, components) ==
    LET run == CTARun(tokens, i + 1, [EmptyCTA EXCEPT !.title = token.text])
    IN  [i |-> run.i, components |-> Append(components, run.cta)]

\* the default at the end of the loop body: token is the token the iteration
\* began with, the cursor is at i
DefaultBranch(i, token, components) ==
    [i |-> i + 1,
     components |-> IF token.type = "paragraph"
                    THEN Append(components, [type |-> "text", content |-> token.text])
                    ELSE components]

\* One iteration of the outer while loop with the cursor at i (i <= Len):
\* the cursor and the components after it.  A depth-2 heading moves the
\* cursor to the next token before it looks for the list; when there is no
\* list the iteration goes on with the moved cursor.
PatternIteration(tokens, i, components) ==
    LET token == tokens[i]
        isH2 == token.type = "heading" /\ token.depth = 2
        j == IF isH2 THEN i + 1 ELSE i
    IN  IF token.type = "heading" /\ token.depth = 1
        THEN HeroBranch(tokens, i, components)
        ELSE IF token.type = "hr"
        THEN [i |-> i + 1, components |-> components]
        ELSE IF token.type = "list" /\ AllImages(token)
        THEN LogosBranch(tokens, i, components)
        ELSE IF isH2 /\ j <= Len(tokens) /\ tokens[j].type = "list"
        THEN CardsBranch(tokens, j, token.text, components)
        ELSE IF token.type = "heading" /\ token.depth = 3
        THEN CTABranch(tokens, j, token, components)
        ELSE DefaultBranch(j, token, components)

\* The outer while loop from cursor i on
RECURSIVE PatternLoop(_, _, _)
PatternLoop(tokens, i, components) ==
    IF ~(i <= Len(tokens)) THEN components
    ELSE LET it == PatternIteration(tokens, i, components)
         IN  PatternLoop(tokens, it.i, it.components)

\* parsePatternBased(markdown)
ParsePatternBased(source) == PatternLoop(Lexer(source), 1, <<>>)

\* ------------------------------------------------------------------------
\* The comment markers
\* ------------------------------------------------------------------------

\* String.prototype.toLowerCase on the identifier of a marker
ToLowerCase(name) ==
    CASE name = "HERO" -> "hero"
      [] name = "Cards" -> "cards"
      [] OTHER -> name

\* markdown.substring(from, to), positions counted from 0
Substring(markdown, from, to) == SubSeq(markdown, from + 1, to)

\* extractCommentMarkers(markdown): one marker per comment, in scan order
RECURSIVE ScanMarkers(_, _)
ScanMarkers(markdown, from) ==
    LET at == {p \in from..(Len(markdown) - 1) : markdown[p + 1].kind = "comment"}
    IN  IF at = {} THEN <<>>
        ELSE LET p == Min(at)
             IN  <<[type |-> ToLowerCase(markdown[p + 1].name),
                    isClosing |-> markdown[p + 1].closing,
                    position |-> p, length |-> 1]>>
                 \o ScanMarkers(markdown, p + 1)

ExtractCommentMarkers(markdown) == ScanMarkers(markdown, 0)

\* markers.sort((a, b) => a.position - b.position)
RECURSIVE SortByPosition(_)
SortByPosition(markers) ==
    IF markers = <<>> THEN <<>>
    ELSE LET first == Min({markers[k].position : k \in 1..Len(markers)})
             at == Min({k \in 1..Len(markers) : markers[k].position = first})
         IN  <<markers[at]>>
             \o SortByPosition(SubSeq(markers, 1, at - 1)
                               \o SubSeq(markers, at + 1, Len(markers)))

\* content.replace(/<!--\s*\/?\w+\s*-->/g, "")
RECURSIVE RemoveComments(_)
RemoveComments(content) ==
    IF content = <<>> THEN <<>>
    ELSE (IF Head(content).kind = "comment" THEN <<>> ELSE <<Head(content)>>)
         \o RemoveComments(Tail(content))

\* Mutant of OpeningIndex: the top of the stack, whatever its type
OpeningIndexTop(stack, marker) == Len(stack)

\* Mutant of OpeningIndex: searched from the start of the stack
OpeningIndexFromStart(stack, marker) ==
    LET same == {j \in 1..Len(stack) :
                    stack[j].type = marker.type /\ ~stack[j].isClosing}
    IN  IF same = {} THEN 0 ELSE Min(same)

\* The index in the stack of the opener a closing marker matches, searched
\* from the end of the stack; 0 when there is none (openingIndex === -1)
OpeningIndex(stack, marker) ==
    LET same == {j \in 1..Len(stack) :
                    stack[j].type = marker.type /\ ~stack[j].isClosing}
    IN  IF same = {} THEN 0 ELSE Max(same)

\* stack.splice(openingIndex, 1)
Splice(stack, openingIndex) ==
    SubSeq(stack, 1, openingIndex - 1) \o SubSeq(stack, openingIndex + 1, Len(stack))

\* The cleaned content between an opener and its closing marker
CleanContent(markdown, opening, marker) ==
    LET contentStart == opening.position + opening.length
        contentEnd == marker.position
        sectionContent == TrimSource(Substring(markdown, contentStart, contentEnd))
    IN  TrimSource(RemoveComments(sectionContent))

\* Mutant of BeforeComponents: the content before the first marker is left out
BeforeComponentsNone(markdown, markers) == <<>>

\* The components of the content before the first marker
BeforeComponents(markdown, markers) ==
    LET firstMarkerPos == markers[1].position
        beforeContent == TrimSource(Substring(markdown, 0, firstMarkerPos))
    IN  IF firstMarkerPos > 0 /\ beforeContent # <<>>
        THEN ParsePatternBased(beforeContent) ELSE <<>>

\* The components of the content after the last marker
AfterComponents(markdown, markers) ==
    LET lastMarker == markers[Len(markers)]
        lastMarkerEnd == lastMarker.position + lastMarker.length
        afterContent == TrimSource(Substring(markdown, lastMarkerEnd, Len(markdown)))
    IN  IF lastMarkerEnd < Len(markdown) /\ afterContent # <<>>
        THEN ParsePatternBased(afterContent) ELSE <<>>

\* Mutant of WithBoundaries: the components before the markers are pushed
WithBoundariesPushed(components, beforeComponents, afterComponents) ==
    components \o beforeComponents \o afterComponents

\* components.unshift(...beforeComponents); components.push(...afterComponents)
WithBoundaries(components, beforeComponents, afterComponents) ==
    beforeComponents \o components \o afterComponents

\* ------------------------------------------------------------------------
\* The inputs
\* ------------------------------------------------------------------------

\* The longest token sequence of an input without markers
MaxTokens == 3

\* The longest input of markers and short texts
MaxSource == 6

Txt(a) == Piece("txt", a, <<>>)

Img(a, b) == Piece("img", a, b)

Lnk(a, b) == Piece("link", a, b)

Bold(a) == Piece("bold", a, <<>>)

HeadingHero == SrcHeading(1, <<"H">>)

HeadingEmpty == SrcHeading(1, <<>>)

HeadingCards == SrcHeading(2, <<"F">>)

HeadingCTA == SrcHeading(3, <<"R">>)

ParaText == SrcParagraph(<<Txt(<<"w">>)>>, FALSE)

ParaImage == SrcParagraph(<<Img(<<"i">>, <<"j">>), Txt(<<"y">>)>>, TRUE)

ParaLink == SrcParagraph(<<Txt(<<"z">>), Lnk(<<"g">>, <<"u">>)>>, FALSE)

\* A paragraph of one image that the tokenizer gives no subtokens for
ParaPicture == SrcParagraph(<<Img(<<"m">>, <<"n">>)>>, FALSE)

ListLogos ==
    SrcList(<<SrcItem(<<Img(<<"a">>, <<"b">>)>>, FALSE),
              SrcItem(<<Img(<<>>, <<"c">>)>>, TRUE)>>)

ListLinks ==
    SrcList(<<SrcItem(<<Lnk(<<"g">>, <<"u">>)>>, TRUE),
              SrcItem(<<Txt(<<"x">>)>>, FALSE)>>)

ListMixed ==
    SrcList(<<SrcItem(<<Img(<<"a">>, <<"b">>)>>, FALSE),
              SrcItem(<<Txt(<<"x">>)>>, FALSE)>>)

\* * ![a](b) **T** p      * ![c](d) **U** q
ListCards ==
    SrcList(<<SrcItem(<<Img(<<"a">>, <<"b">>), Bold(<<"T">>), Txt(<<"p">>)>>, FALSE),
              SrcItem(<<Img(<<"c">>, <<"d">>), Bold(<<"U">>), Txt(<<"q">>)>>, FALSE)>>)

TokenSources ==
    {HeadingHero, HeadingEmpty, HeadingCards, HeadingCTA,
     ParaText, ParaImage, ParaLink, ParaPicture,
     ListLogos, ListLinks, ListMixed, ListCards,
     SrcHr, SrcImage(<<"k">>), SrcBlank}

SeqsUpTo(S, n) == UNION {[1..m -> S] : m \in 0..n}

\* Inputs without markers
PatternInputs == SeqsUpTo(TokenSources, MaxTokens)

MarkerSources ==
    {SrcComment("hero", FALSE), SrcComment("hero", TRUE),
     SrcComment("note", FALSE), SrcComment("note", TRUE),
     HeadingHero, ParaText}

\* Inputs of markers, nested, interleaved and unmatched, around short texts
MarkerInputs == SeqsUpTo(MarkerSources, MaxSource)

\* Inputs of one section between its two markers
SectionInputs ==
    {<<SrcComment("HERO", FALSE)>> \o x \o <<SrcComment("hero", TRUE)>> :
        x \in {y \in PatternInputs :
                  Len(y) <= 1 \/ (y[1].kind = "heading" /\ y[1].depth = 1)}}
    \cup
    {<<SrcComment(t, FALSE)>> \o x \o <<SrcComment(t, TRUE)>> :
        t \in {"logos", "cards", "cta"},
        x \in {y \in PatternInputs : Len(y) < MaxTokens}}

Inputs == PatternInputs \cup MarkerInputs \cup SectionInputs

\* ------------------------------------------------------------------------
\* The state machine: one call of parseMarkdownToComponents
\* ------------------------------------------------------------------------

VARIABLES
    markdown,    \* the argument
    pc,          \* "call", "markers" (the loop of parseWithCommentMarkers),
                 \* "pattern" (the loop of parsePatternBased), "done"
    markers,     \* parseWithCommentMarkers: the sorted markers
    stack,       \* parseWithCommentMarkers: the open markers
    tokens,      \* parsePatternBased: the tokens
    i,           \* the loop index of either loop, counted from 1
    components,  \* the blocks so far; the result once pc = "done"
    lastEnd,     \* parseWithCommentMarkers: the end of the last closed section
    matched,     \* history: the <<opening, closing>> positions paired so far
    emitted,     \* history: for each block pushed in the markers loop, the
                 \* position of its closing marker
    cursors      \* history: the values the cursor of the pattern loop took

vars == <<markdown, pc, markers, stack, tokens, i, components, lastEnd,
          matched, emitted, cursors>>

Init ==
    /\ markdown \in Inputs
    /\ pc = "call"
    /\ markers = <<>>
    /\ stack = <<>>
    /\ tokens = <<>>
    /\ i = 1
    /\ components = <<>>
    /\ lastEnd = 0
    /\ matched = <<>>
    /\ emitted = <<>>
    /\ cursors = <<>>

\* parseMarkdownToComponents up to the first iteration of the loop it enters
Call ==
    /\ pc = "call"
    /\ LET commentMarkers == ExtractCommentMarkers(markdown)
       IN  IF Len(commentMarkers) > 0
           THEN /\ pc' = "markers"
                /\ markers' = SortByPosition(commentMarkers)
                /\ tokens' = tokens
                /\ cursors' = cursors
           ELSE /\ pc' = "pattern"
                /\ markers' = markers
                /\ tokens' = Lexer(markdown)
                /\ cursors' = <<1>>
    /\ i' = 1
    /\ stack' = <<>>
    /\ components' = <<>>
    /\ lastEnd' = 0
    /\ UNCHANGED <<markdown, matched, emitted>>

\* parseWithCommentMarkers: an iteration on an opening marker
OpeningMarker ==
    /\ pc = "markers"
    /\ i <= Len(markers)
    /\ ~markers[i].isClosing
    /\ stack' = Append(stack, markers[i])
    /\ i' = i + 1
    /\ UNCHANGED <<markdown, pc, markers, tokens, components, lastEnd,
                   matched, emitted, cursors>>

\* parseWithCommentMarkers: an iteration on a closing marker
ClosingMarker ==
    /\ pc = "markers"
    /\ i <= Len(markers)
    /\ markers[i].isClosing
    /\ LET marker == markers[i]
           openingIndex == OpeningIndex(stack, marker)
       IN  IF openingIndex = 0
           THEN UNCHANGED <<stack, components, lastEnd, matched, emitted>>
           ELSE LET opening == stack[openingIndex]
                    cleanContent == CleanContent(markdown, opening, marker)
                    sectionComponent == ParseSectionByType(marker.type, cleanContent)
                IN  /\ stack' = Splice(stack, openingIndex)
                    /\ components' = components \o sectionComponent
                    /\ lastEnd' = marker.position + marker.length
                    /\ matched' = Append(matched, <<opening.position, marker.position>>)
                    /\ emitted' = IF sectionComponent # <<>>
                                  THEN Append(emitted, marker.position)
                                  ELSE emitted
    /\ i' = i + 1
    /\ UNCHANGED <<markdown, pc, markers, tokens, cursors>>

\* parseWithCommentMarkers: after the loop, the content before the first and
\* after the last marker, and the return
Boundaries ==
    /\ pc = "markers"
    /\ ~(i <= Len(markers))
    /\ components' = WithBoundaries(components,
                                    BeforeComponents(markdown, markers),
                                    AfterComponents(markdown, markers))
    /\ pc' = "done"
    /\ UNCHANGED <<markdown, markers, stack, tokens, i, lastEnd, matched,
                   emitted, cursors>>

\* parsePatternBased: one iteration of the outer loop
PatternStep ==
    /\ pc = "pattern"
    /\ i <= Len(tokens)
    /\ LET it == PatternIteration(tokens, i, components)
       IN  /\ i' = it.i
           /\ components' = it.components
           /\ cursors' = Append(cursors, it.i)
    /\ UNCHANGED <<markdown, pc, markers, stack, tokens, lastEnd, matched, emitted>>

\* parsePatternBased: the loop is left and the components are returned
PatternReturn ==
    /\ pc = "pattern"
    /\ ~(i <= Len(tokens))
    /\ pc' = "done"
    /\ UNCHANGED <<markdown, markers, stack, tokens, i, components, lastEnd,
                   matched, emitted, cursors>>

Next ==
    \/ Call
    \/ OpeningMarker
    \/ ClosingMarker
    \/ Boundaries
    \/ PatternStep
    \/ PatternReturn

Spec == Init /\ [][Next]_vars

\* ------------------------------------------------------------------------
\* Properties
\* ------------------------------------------------------------------------

IsHeading(e, depth) == e.kind = "heading" /\ e.depth = depth

HasMarkers == \E k \in 1..Len(markdown) : markdown[k].kind = "comment"

\* The first image piece of a list item of the source
FirstImage(item) ==
    item.pieces[Min({k \in 1..Len(item.pieces) : item.pieces[k].kind = "img"})]

ItemHasImage(item) == \E k \in 1..Len(item.pieces) : item.pieces[k].kind = "img"

\* A list of the source every item of which is written with an image
IsImageList(e) ==
    e.kind = "list" /\ \A k \in 1..Len(e.items) : ItemHasImage(e.items[k])

Last(seq) == seq[Len(seq)]

\* The blocks of one type, in order
RECURSIVE BlocksOfType(_, _)
BlocksOfType(blocks, type) ==
    IF blocks = <<>> THEN <<>>
    ELSE (IF Head(blocks).type = type THEN <<Head(blocks)>> ELSE <<>>)
         \o BlocksOfType(Tail(blocks), type)

\* An item written as one image, one bold segment and plain text, no link
IsPlainCardItem(item) ==
    /\ Len(item.pieces) = 3
    /\ item.pieces[1].kind = "img"
    /\ item.pieces[2].kind = "bold"
    /\ item.pieces[3].kind = "txt"

\* C1: for a depth-2 heading immediately followed by a list whose items each
\* hold one image, one bold segment and plain text but no link, the result is
\* exactly one cards block with the heading text as title and, per item in
\* list order, the image URL, the bold text, the plain text and a null link.
C1_CardsWithoutLinks ==
    (/\ pc = "done"
     /\ Len(markdown) = 2
     /\ IsHeading(markdown[1], 2)
     /\ markdown[2].kind = "list"
     /\ \A k \in 1..Len(markdown[2].items) : IsPlainCardItem(markdown[2].items[k]))
    => components =
         <<[type |-> "cards", title |-> markdown[1].text,
            items |-> [k \in 1..Len(markdown[2].items) |->
                          [image |-> <<markdown[2].items[k].pieces[1].b>>,
                           title |-> markdown[2].items[k].pieces[2].a,
                           text |-> markdown[2].items[k].pieces[3].a,
                           link |-> <<>>]]]>>

\* The input is one hero section <!--hero-->X<!--/hero-->
IsHeroSection ==
    /\ Len(markdown) >= 2
    /\ markdown[1].kind = "comment" /\ ~markdown[1].closing
    /\ ToLowerCase(markdown[1].name) = "hero"
    /\ Last(markdown).kind = "comment" /\ Last(markdown).closing
    /\ ToLowerCase(Last(markdown).name) = "hero"
    /\ \A k \in 2..(Len(markdown) - 1) : markdown[k].kind # "comment"

\* The X of a hero section
HeroContent == SubSeq(markdown, 2, Len(markdown) - 1)

\* C2 as stated: for every X beginning with a depth-1 heading, the marker path
\* on <!--hero-->X<!--/hero--> yields exactly the hero block the heuristic
\* path yields on X, and no other block.  (Stated for a heading with text, so
\* that neither path has an empty hero block to emit or to drop.)
C2_RoundTripAnyContent ==
    (/\ pc = "done"
     /\ IsHeroSection
     /\ HeroContent # <<>>
     /\ IsHeading(HeroContent[1], 1)
     /\ HeroContent[1].text # <<>>)
    => components = <<ParsePatternBased(HeroContent)[1]>>

\* The hero run of the heuristic path on X takes all of X: after the first
\* heading there is no heading, no horizontal rule and no list of images only
RunTakesAll(x) ==
    \A k \in 2..Len(x) :
        /\ x[k].kind # "heading"
        /\ x[k].kind # "hr"
        /\ ~IsImageList(x[k])

\* C2 amended: when X is a depth-1 heading followed by tokens none of which is
\* a heading, a horizontal rule or a list of images only, the heuristic path
\* on X yields one hero block; the marker path yields that same block when
\* its title, content or image is non-empty, and no block otherwise.
C2_RoundTripHeroRun ==
    (/\ pc = "done"
     /\ IsHeroSection
     /\ HeroContent # <<>>
     /\ IsHeading(HeroContent[1], 1)
     /\ RunTakesAll(HeroContent))
    => LET heuristic == ParsePatternBased(HeroContent)
       IN  /\ Len(heuristic) = 1
           /\ heuristic[1].type = "hero"
           /\ components =
                IF \/ heuristic[1].title # <<>>
                   \/ heuristic[1].content # <<>>
                   \/ Truthy(heuristic[1].image)
                THEN heuristic ELSE <<>>

\* C2 witness: a hero section with heading, image paragraph and links list
\* has been parsed into its block
C2_Witness ==
    /\ pc = "done"
    /\ IsHeroSection
    /\ HeroContent = <<HeadingHero, ParaImage, ListLinks>>
    /\ Len(components) = 1
    /\ components[1].links # <<>>
    /\ components[1].image # <<>>

\* C3: every hero block of the output has a non-empty title, content, links
\* or image, and every cta block a non-empty title, content or link.
C3_NoEmptyBlock ==
    \A k \in 1..Len(components) :
        /\ components[k].type = "hero" =>
              \/ components[k].title # <<>>
              \/ components[k].content # <<>>
              \/ components[k].links # <<>>
              \/ Truthy(components[k].image)
        /\ components[k].type = "cta" =>
              \/ components[k].title # <<>>
              \/ components[k].content # <<>>
              \/ components[k].link # <<>>

\* C3 failing input: the heuristic path has emitted a hero block for "#"
C3_FailingInput ==
    ~(/\ pc = "done"
      /\ markdown = <<HeadingEmpty>>
      /\ components = <<EmptyHero>>)

\* The positions (from 0) of the comments of the source
CommentPositions == {p \in 0..(Len(markdown) - 1) : markdown[p + 1].kind = "comment"}

\* The source before the first and after the last comment
SourceBefore == SubSeq(markdown, 1, Min(CommentPositions))

SourceAfter == SubSeq(markdown, Max(CommentPositions) + 2, Len(markdown))

\* p lies outside every matched pair and is no comment
IsOutside(p) ==
    /\ markdown[p + 1].kind # "comment"
    /\ \A k \in 1..Len(matched) : ~(matched[k][1] < p /\ p < matched[k][2])

\* The maximal runs of source outside every matched pair, as <<from, to>>
OutsideRuns ==
    {r \in (0..(Len(markdown) - 1)) \X (0..(Len(markdown) - 1)) :
        /\ r[1] <= r[2]
        /\ \A p \in r[1]..r[2] : IsOutside(p)
        /\ (r[1] = 0 \/ ~IsOutside(r[1] - 1))
        /\ (r[2] = Len(markdown) - 1 \/ ~IsOutside(r[2] + 1))}

\* part occurs in whole as a run of consecutive elements
IsInfix(part, whole) ==
    \E from \in 0..(Len(whole) - Len(part)) :
        SubSeq(whole, from + 1, from + Len(part)) = part

\* C4 as stated: with markers present, the blocks of every piece of source
\* outside all matched pairs - before the first marker, after the last and
\* between a closer and the next opener - appear in the output.
C4_AllOutsideTextParsed ==
    (pc = "done" /\ HasMarkers)
    => \A r \in OutsideRuns :
          IsInfix(ParsePatternBased(SubSeq(markdown, r[1] + 1, r[2] + 1)), components)

\* C4 amended: with markers present, the blocks of the source before the
\* first marker open the output and the blocks of the source after the last
\* marker close it; every other block comes from a closed section, so source
\* between two markers and outside every matched pair yields nothing.
C4_BoundaryTextParsed ==
    (pc = "done" /\ HasMarkers)
    => LET before == ParsePatternBased(SourceBefore)
           after == ParsePatternBased(SourceAfter)
       IN  /\ Len(components) = Len(before) + Len(emitted) + Len(after)
           /\ SubSeq(components, 1, Len(before)) = before
           /\ SubSeq(components, Len(components) - Len(after) + 1, Len(components))
                = after

\* C4 witness: text before, between and after two closed sections; only the
\* first and the last text are in the output
C4_Witness ==
    /\ pc = "done"
    /\ Len(matched) >= 1
    /\ \E r \in OutsideRuns : r[1] > Min(CommentPositions) /\ r[2] < Max(CommentPositions)
    /\ ParsePatternBased(SourceBefore) # <<>>
    /\ ParsePatternBased(SourceAfter) # <<>>

\* The current marker of the markers loop is a closing marker
AtClosingMarker == pc = "markers" /\ i <= Len(markers) /\ markers[i].isClosing

\* The open markers of the type of the current marker, as stack indices
OpenOfType == {j \in 1..Len(stack) : stack[j].type = markers[i].type}

\* C5: a closing marker for which the stack holds no open marker of its type
\* is ignored: the loop goes on to the next marker, no block is appended and
\* the stack is unchanged.
C5_UnmatchedCloserIgnored ==
    [][(AtClosingMarker /\ OpenOfType = {})
       => /\ pc' = "markers"
          /\ i' = i + 1
          /\ components' = components
          /\ stack' = stack
          /\ matched' = matched]_vars

\* C5 witness: a closing marker has been passed with other markers open and
\* nothing was matched by it
C5_Witness ==
    /\ pc = "markers"
    /\ i > 1
    /\ markers[i - 1].isClosing
    /\ stack # <<>>
    /\ matched = <<>>
    /\ components = <<>>

\* The cursor of the pattern loop is at a token
AtToken == pc = "pattern" /\ i <= Len(tokens)

\* The logos block the source of an image list stands for: per item, the alt
\* text and the URL of its first image
LogosOf(e) ==
    [type |-> "logos",
     items |-> [k \in 1..Len(e.items) |->
                   [alt |-> FirstImage(e.items[k]).a,
                    src |-> FirstImage(e.items[k]).b]]]

\* C6 as stated: a list not consumed by a hero run yields a logos block if
\* and only if all its items are images.  (Stated for inputs without depth-1
\* heading, where no hero run consumes anything: the logos blocks of the
\* output are then those of the image lists, in order.)
C6_LogosOfEveryImageList ==
    (/\ pc = "done"
     /\ ~HasMarkers
     /\ \A k \in 1..Len(markdown) : ~IsHeading(markdown[k], 1))
    => BlocksOfType(components, "logos")
         = Concat([k \in 1..Len(markdown) |->
                      IF IsImageList(markdown[k]) THEN <<LogosOf(markdown[k])>>
                      ELSE <<>>])

\* C6 amended: a list token the outer loop reaches with its cursor - one not
\* consumed by a hero run, by a cta run or as the list of the depth-2 heading
\* before it - appends a logos block if and only if all its items are images;
\* the block has one {alt, src} entry per item in item order, and a list with
\* a non-image item appends nothing.
C6_LogosOfReachedList ==
    [][(AtToken /\ tokens[i].type = "list")
       => /\ i' = i + 1
          /\ components' = IF IsImageList(markdown[i])
                           THEN Append(components, LogosOf(markdown[i]))
                           ELSE components]_vars

\* C6 witness: the outer loop has turned an image list into a logos block
C6_Witness ==
    /\ pc = "pattern"
    /\ i > 1
    /\ i - 1 <= Len(tokens)
    /\ tokens[i - 1].type = "list"
    /\ components # <<>>
    /\ Last(components).type = "logos"
    /\ Len(Last(components).items) = 2

C8_NearestOpenerRemoved ==
    [][(AtClosingMarker /\ OpenOfType # {})
       => LET j == CHOOSE n \in OpenOfType : \A k \in OpenOfType : k <= n
          IN  /\ stack' = [k \in 1..(Len(stack) - 1) |->
                              IF k < j THEN stack[k] ELSE stack[k + 1]]
              /\ matched' = Append(matched, <<stack[j].position, markers[i].position>>)
              /\ \A k \in 1..Len(matched) : matched[k][1] # stack[j].position]_vars

\* C8 witness: a marker opened after the matched opener, and before its
\* closing marker, is still on the stack
C8_Witness ==
    /\ pc = "markers"
    /\ \E k \in 1..Len(matched), n \in 1..Len(stack) :
          /\ matched[k][1] < stack[n].position
          /\ stack[n].position < matched[k][2]
          /\ stack[n].type # "hero"
    /\ Len(matched) = 2

\* C9: every paragraph token outside a hero run and a cta run yields one text
\* block with its raw text, also the one after a depth-2 heading that no list
\* follows.  (Stated for inputs without depth-1 and depth-3 heading, where
\* there is no run: the text blocks are then the paragraphs, in order.)
C9_TextOfEveryParagraph ==
    (/\ pc = "done"
     /\ ~HasMarkers
     /\ \A k \in 1..Len(markdown) :
           ~IsHeading(markdown[k], 1) /\ ~IsHeading(markdown[k], 3))
    => BlocksOfType(components, "text")
         = Concat([k \in 1..Len(markdown) |->
                      IF markdown[k].kind = "paragraph"
                      THEN <<[type |-> "text", content |-> RawText(markdown[k].pieces)]>>
                      ELSE <<>>])

\* C9 failing input: "## F" and a paragraph after it give no block at all
C9_FailingInput ==
    ~(/\ pc = "done"
      /\ markdown = <<HeadingCards, ParaText>>
      /\ components = <<>>)

\* Where the hero run of the depth-1 heading at index h stops: the first
\* heading, horizontal rule or image list after it, or the end
HeroRunStop(h) ==
    Min({k \in (h + 1)..Len(markdown) :
            \/ markdown[k].kind = "heading"
            \/ markdown[k].kind = "hr"
            \/ IsImageList(markdown[k])}
        \cup {Len(markdown) + 1})

\* C10: a depth-1 heading opens a hero run that consumes the tokens up to,
\* not including, the next heading; a horizontal rule ends the run and is
\* consumed; an image list ends it and is not consumed, and the next
\* iteration puts its logos block directly after the hero block.
C10_HeroRunExtent ==
    [][/\ (AtToken /\ tokens[i].type = "heading" /\ tokens[i].depth = 1)
          => LET stop == HeroRunStop(i)
             IN  /\ i' = IF stop <= Len(markdown) /\ markdown[stop].kind = "hr"
                         THEN stop + 1 ELSE stop
                 /\ Len(components') = Len(components) + 1
                 /\ SubSeq(components', 1, Len(components)) = components
                 /\ Last(components').type = "hero"
                 /\ Last(components').title = markdown[i].text
       /\ (/\ AtToken
           /\ IsImageList(markdown[i])
           /\ Len(cursors) >= 2
           /\ IsHeading(markdown[cursors[Len(cursors) - 1]], 1))
          => /\ Last(components).type = "hero"
             /\ components' = Append(components, LogosOf(markdown[i]))]_vars

\* C10 witness: a hero run has stopped at an image list and the output is
\* the hero block and then the logos block
C10_Witness ==
    /\ pc = "pattern"
    /\ Len(components) = 2
    /\ components[1].type = "hero"
    /\ components[1].content # <<>>
    /\ components[2].type = "logos"
    /\ tokens[1].type = "heading"
    /\ tokens[3].type = "list"

\* An element of the source that carries a hero image: a standalone image
\* or a paragraph written with an image
CarriesImage(e) ==
    \/ e.kind = "image"
    \/ e.kind = "paragraph" /\ \E k \in 1..Len(e.pieces) : e.pieces[k].kind = "img"

\* The URL of the image of such an element, the first one of a paragraph
ImageOf(e) ==
    IF e.kind = "image" THEN e.href
    ELSE e.pieces[Min({k \in 1..Len(e.pieces) : e.pieces[k].kind = "img"})].b

\* The URL of the first image of a piece of source that has one
FirstImageOf(x) == ImageOf(x[Min({k \in 1..Len(x) : CarriesImage(x[k])})])

HasImage(x) == \E k \in 1..Len(x) : CarriesImage(x[k])

\* C11: in hero extraction the first image of the section wins: the image of
\* the hero block of a hero section, and of a hero run that takes the whole
\* input, is the first paragraph image or standalone image of it, whatever
\* images follow.
C11_FirstImageWins ==
    /\ (/\ pc = "done"
        /\ IsHeroSection
        /\ HasImage(HeroContent))
       => /\ Len(components) = 1
          /\ components[1].image = <<FirstImageOf(HeroContent)>>
    /\ (/\ pc = "done"
        /\ ~HasMarkers
        /\ markdown # <<>>
        /\ IsHeading(markdown[1], 1)
        /\ RunTakesAll(markdown)
        /\ HasImage(markdown))
       => /\ Len(components) = 1
          /\ components[1].image = <<FirstImageOf(markdown)>>

\* C12: the heuristic segmenter is one left-to-right pass that terminates:
\* the cursor strictly increases from one iteration of the outer loop to the
\* next, so the tokens of two iterations never overlap and there are at most
\* as many iterations as tokens, and the loop is left with the cursor at the
\* end of the sequence (one past the last token, counting from 1).
C12_SinglePass ==
    (~HasMarkers /\ pc \in {"pattern", "done"})
    => /\ \A k \in 1..(Len(cursors) - 1) : cursors[k] < cursors[k + 1]
       /\ Len(cursors) <= Len(tokens) + 1
       /\ i = Last(cursors)
       /\ pc = "done" => i = Len(tokens) + 1

====
